---- MODULE Spec2Model ----
\* Model of src/mcp_server.py: the Home Assistant MCP gateway.
\* call_tool(name, arguments) opens the shared client's HTTP session, runs one
\* branch of the dispatcher (validation, at most one backend request, rendering)
\* and closes the session again.
\*
\* Representation of Python values:
\*   - strings the code inspects character-wise or for emptiness as data
\*     (entity ids, device types) are sequences of one-character strings;
\*   - strings the code only compares as a whole (tool names, actions, modes,
\*     literal text fragments) are TLA+ strings;
\*   - a dict is a function whose DOMAIN is its key set; Empty is {};
\*   - JSON values coming back from the backend carry their Python type in a
\*     tag t (the code uses isinstance and .get on them);
\*   - an f-string is the tuple of its literal and formatted pieces.
EXTENDS Integers, Sequences, FiniteSets, TLC

\* ---------------------------------------------------------------- bounds
MaxDispatches == 2      \* call_tool invocations in one run
MaxStates == 2          \* length of the state list the backend returns

\* ---------------------------------------------------------------- values
Empty == <<>>
None == [none |-> TRUE]
Py(v) == [val |-> v]

Light == <<"l", "i", "g", "h", "t">>
Lights == Light \o <<"s">>
LightA == Light \o <<".", "a">>
LightsA == Lights \o <<".", "a">>

JList(items) == [t |-> "list", items |-> items]
JDict(d) == [t |-> "dict", v |-> d]
JStr(s) == [t |-> "str", s |-> s]

\* State objects the backend may hold: complete, without attributes, without
\* entity_id, and with an entity_id that has no domain separator.
StateObjects ==
  { JDict([entity_id |-> LightA, state |-> "on", attributes |-> [brightness |-> 120]]),
    JDict([entity_id |-> LightsA, state |-> "off"]),
    JDict([state |-> "on", attributes |-> Empty]),
    JDict([entity_id |-> Light]) }

RECURSIVE SeqsUpTo(_, _)
SeqsUpTo(S, n) ==
  IF n = 0 THEN {<<>>}
  ELSE LET shorter == SeqsUpTo(S, n - 1)
       IN  shorter \cup { Append(s, x) : s \in shorter, x \in S }

StateLists == { JList(s) : s \in SeqsUpTo(StateObjects, MaxStates) }

\* A list with an element that is not an object (state.get raises on it).
MalformedLists == { JList(<<JStr("unavailable")>>) }

\* Non-list JSON bodies (the status code is never inspected).
DictBodies == { JDict([message |-> "401: Unauthorized"]) }

\* What one HTTP exchange can end in: a JSON body, an aiohttp.ClientError,
\* or any other exception raised under session.get / session.post / .json().
Outcomes ==
  { [kind |-> "json", body |-> b] : b \in StateLists \cup MalformedLists \cup DictBodies }
  \cup { [kind |-> "client_error", msg |-> "Cannot connect to host"],
         [kind |-> "exception", msg |-> "Timeout"] }

\* ---------------------------------------------------------------- inputs
Opt(k, V) == {Empty} \cup { k :> v : v \in V }

ActionValues == {"", "turn_on", "turn_off", "toggle", "set_temperature", "set_mode", "dim"}

QueryArgs ==
  { a @@ b : a \in Opt("device_type", {<<>>, Light, Lights}),
             b \in Opt("entity_id", {<<>>, LightA}) }
LightArgs ==
  { a @@ b @@ c @@ d : a \in Opt("entity_id", {<<>>, LightA}),
                       b \in Opt("action", ActionValues),
                       c \in Opt("brightness", {0, 120}),
                       d \in Opt("color_temp", {300}) }
ClimateArgs ==
  { a @@ b @@ c @@ d : a \in Opt("entity_id", {<<>>, LightA}),
                       b \in Opt("action", ActionValues),
                       c \in Opt("temperature", {21}),
                       d \in Opt("mode", {"heat"}) }
MixedArgs ==
  { [entity_id |-> LightA, action |-> a, brightness |-> 120, temperature |-> 21, mode |-> "heat"] :
      a \in {"toggle", "set_temperature", "set_mode"} }
ArgMaps == QueryArgs \cup LightArgs \cup ClimateArgs \cup MixedArgs

\* list_tools, lines 130-246: the names of the catalogue, in order.
list_tools ==
  << "get_all_devices", "get_devices_by_type", "get_device_state",
     "control_light", "control_switch", "control_climate" >>

\* the `enum` of the action parameter in each inputSchema, lines 180, 211, 230
ActionEnum(tool) ==
  CASE tool \in {"control_light", "control_switch"} -> {"turn_on", "turn_off", "toggle"}
    [] tool = "control_climate" -> {"set_temperature", "set_mode"}
    [] OTHER -> {}

Catalogue == { list_tools[i] : i \in 1..Len(list_tools) }

ToolNames == Catalogue \cup {"delete_device", ""}

\* ---------------------------------------------------------------- helpers
Has(d, k) == k \in DOMAIN d
\* `not arguments.get(k)` for a character-sequence value
NotSeq(d, k) == ~Has(d, k) \/ Len(d[k]) = 0
\* `not arguments.get(k)` for a whole-string value
NotStr(d, k) == ~Has(d, k) \/ d[k] = ""
\* d.get(k) and d.get(k, default)
Get(d, k) == IF Has(d, k) THEN Py(d[k]) ELSE None
GetOr(d, k, default) == IF Has(d, k) THEN d[k] ELSE default

\* str.startswith
StartsWith(s, prefix) ==
  /\ Len(prefix) <= Len(s)
  /\ \A i \in 1..Len(prefix) : s[i] = prefix[i]

Return(text) == [k |-> "return", text |-> text]
Request(method, endpoint, data) ==
  [k |-> "request", method |-> method, endpoint |-> endpoint, data |-> data]

Json(v) == <<"json.dumps", v>>

AttributeError == "'str' object has no attribute 'get'"

\* ---------------------------------------------------------------- HomeAssistantMCP
\* call_ha_api, lines 68-92: the value returned for one HTTP exchange.
call_ha_api(outcome) ==
  CASE outcome.kind = "json" -> outcome.body
    [] outcome.kind = "client_error" ->
         JDict([error |-> <<"HTTP client error: ", outcome.msg>>])
    [] OTHER -> JDict([error |-> <<outcome.msg>>])

\* get_states, lines 97-102
get_states(result) == IF result.t = "list" THEN result.items ELSE <<>>

\* get_state / call_service, lines 104-112: the request they issue
get_state(entity_id) == Request("GET", <<"states", entity_id>>, None)
call_service(domain, service, data) ==
  Request("POST", <<"services", domain, service>>, data)

\* Variant: the filter tests the bare type, without the domain separator.
get_devices_by_type_nodot(device_type, states) ==
  SelectSeq(states,
            LAMBDA state : StartsWith(GetOr(state.v, "entity_id", <<>>), device_type))

\* get_devices_by_type, line 118: the filter over the fetched states
get_devices_by_type(device_type, states) ==
  SelectSeq(states,
            LAMBDA state : StartsWith(GetOr(state.v, "entity_id", <<>>),
                                      device_type \o <<".">>))

\* ---------------------------------------------------------------- call_tool
ErrorText(pieces) == <<"Error: ">> \o pieces

\* lines 262-266 and 284-288: the (entity_id, state, attributes) projection
Projection(state) ==
  [ entity_id |-> Get(state.v, "entity_id"),
    state |-> Get(state.v, "state"),
    attributes |-> GetOr(state.v, "attributes", Empty) ]

ProjectAll(states) == [ i \in 1..Len(states) |-> Projection(states[i]) ]

\* state.get(...) raises AttributeError on an element that is not a dict
RaisesOnGet(states) == \E i \in 1..Len(states) : states[i].t # "dict"

\* lines 257-272
get_all_devices(arguments) == Request("GET", <<"states">>, None)
get_all_devices_done(arguments, result) ==
  LET states == get_states(result) IN
  IF RaisesOnGet(states) THEN ErrorText(<<AttributeError>>)
  ELSE LET devices == ProjectAll(states)
       IN  <<"Found ", Len(devices), " devices:\n", Json(devices)>>

\* lines 274-294
devices_by_type(arguments) ==
  IF NotSeq(arguments, "device_type")
  THEN Return(ErrorText(<<"device_type is required">>))
  ELSE Request("GET", <<"states">>, None)
devices_by_type_done(arguments, result) ==
  LET states == get_states(result) IN
  IF RaisesOnGet(states) THEN ErrorText(<<AttributeError>>)
  ELSE LET device_type == arguments.device_type
           device_list == ProjectAll(get_devices_by_type(device_type, states))
       IN  <<"Found ", Len(device_list), " ", device_type, " devices:\n", Json(device_list)>>

\* lines 296-308
get_device_state(arguments) ==
  IF NotSeq(arguments, "entity_id")
  THEN Return(ErrorText(<<"entity_id is required">>))
  ELSE get_state(arguments.entity_id)
get_device_state_done(arguments, result) ==
  <<"Device ", arguments.entity_id, " state:\n", Json(result)>>

\* Variant: the optional fields are forwarded whatever the action is.
control_light_forward(arguments) ==
  IF NotSeq(arguments, "entity_id") \/ NotStr(arguments, "action")
  THEN Return(ErrorText(<<"entity_id and action are required">>))
  ELSE LET action == arguments.action
           data == [entity_id |-> arguments.entity_id]
                   @@ (IF Has(arguments, "brightness")
                       THEN "brightness" :> arguments.brightness ELSE Empty)
                   @@ (IF Has(arguments, "color_temp")
                       THEN "color_temp" :> arguments.color_temp ELSE Empty)
       IN  IF action \in {"turn_on", "turn_off", "toggle"}
           THEN call_service("light", action, data)
           ELSE Return(ErrorText(<<"Invalid action '", action, "'">>))

\* lines 310-338
control_light(arguments) ==
  IF NotSeq(arguments, "entity_id") \/ NotStr(arguments, "action")
  THEN Return(ErrorText(<<"entity_id and action are required">>))
  ELSE LET entity_id == arguments.entity_id
           action == arguments.action
           data == [entity_id |-> entity_id]
       IN  CASE action = "turn_on" ->
                  call_service("light", "turn_on",
                     data
                     @@ (IF Has(arguments, "brightness")
                         THEN "brightness" :> arguments.brightness ELSE Empty)
                     @@ (IF Has(arguments, "color_temp")
                         THEN "color_temp" :> arguments.color_temp ELSE Empty))
             [] action = "turn_off" -> call_service("light", "turn_off", data)
             [] action = "toggle" -> call_service("light", "toggle", data)
             [] OTHER -> Return(ErrorText(<<"Invalid action '", action, "'">>))
\* lines 340-344
control_light_done(arguments, result) ==
  <<"Light ", arguments.entity_id, " ", arguments.action, " result:\n", Json(result)>>

\* Variant: the action is used as the service name without being checked.
control_switch_unchecked(arguments) ==
  IF NotSeq(arguments, "entity_id") \/ NotStr(arguments, "action")
  THEN Return(ErrorText(<<"entity_id and action are required">>))
  ELSE call_service("switch", arguments.action, [entity_id |-> arguments.entity_id])

\* lines 346-368
control_switch(arguments) ==
  IF NotSeq(arguments, "entity_id") \/ NotStr(arguments, "action")
  THEN Return(ErrorText(<<"entity_id and action are required">>))
  ELSE LET entity_id == arguments.entity_id
           action == arguments.action
           data == [entity_id |-> entity_id]
       IN  CASE action = "turn_on" -> call_service("switch", "turn_on", data)
             [] action = "turn_off" -> call_service("switch", "turn_off", data)
             [] action = "toggle" -> call_service("switch", "toggle", data)
             [] OTHER -> Return(ErrorText(<<"Invalid action '", action, "'">>))
\* lines 370-374
control_switch_done(arguments, result) ==
  <<"Switch ", arguments.entity_id, " ", arguments.action, " result:\n", Json(result)>>

\* Variant: only the static required list (entity_id, action) is checked.
control_climate_static(arguments) ==
  IF NotSeq(arguments, "entity_id") \/ NotStr(arguments, "action")
  THEN Return(ErrorText(<<"entity_id and action are required">>))
  ELSE LET action == arguments.action
           data == [entity_id |-> arguments.entity_id]
       IN  CASE action = "set_temperature" ->
                  call_service("climate", "set_temperature",
                     data @@ (IF Has(arguments, "temperature")
                              THEN "temperature" :> arguments.temperature ELSE Empty))
             [] action = "set_mode" ->
                  call_service("climate", "set_hvac_mode",
                     data @@ (IF Has(arguments, "mode")
                              THEN "hvac_mode" :> arguments.mode ELSE Empty))
             [] OTHER -> Return(ErrorText(<<"Invalid action '", action, "'">>))

\* Variant: the mode is forwarded under its own name.
control_climate_norename(arguments) ==
  IF NotSeq(arguments, "entity_id") \/ NotStr(arguments, "action")
  THEN Return(ErrorText(<<"entity_id and action are required">>))
  ELSE LET action == arguments.action
           data == [entity_id |-> arguments.entity_id]
       IN  CASE action = "set_temperature" ->
                  IF ~Has(arguments, "temperature")
                  THEN Return(ErrorText(<<"temperature is required for set_temperature">>))
                  ELSE call_service("climate", "set_temperature",
                                    data @@ ("temperature" :> arguments.temperature))
             [] action = "set_mode" ->
                  IF ~Has(arguments, "mode")
                  THEN Return(ErrorText(<<"mode is required for set_mode">>))
                  ELSE call_service("climate", "set_hvac_mode",
                                    data @@ ("mode" :> arguments.mode))
             [] OTHER -> Return(ErrorText(<<"Invalid action '", action, "'">>))

\* lines 376-403
control_climate(arguments) ==
  IF NotSeq(arguments, "entity_id") \/ NotStr(arguments, "action")
  THEN Return(ErrorText(<<"entity_id and action are required">>))
  ELSE LET entity_id == arguments.entity_id
           action == arguments.action
           data == [entity_id |-> entity_id]
       IN  CASE action = "set_temperature" ->
                  IF ~Has(arguments, "temperature")
                  THEN Return(ErrorText(<<"temperature is required for set_temperature">>))
                  ELSE call_service("climate", "set_temperature",
                                    data @@ ("temperature" :> arguments.temperature))
             [] action = "set_mode" ->
                  IF ~Has(arguments, "mode")
                  THEN Return(ErrorText(<<"mode is required for set_mode">>))
                  ELSE call_service("climate", "set_hvac_mode",
                                    data @@ ("hvac_mode" :> arguments.mode))
             [] OTHER -> Return(ErrorText(<<"Invalid action '", action, "'">>))
\* lines 405-409
control_climate_done(arguments, result) ==
  <<"Climate ", arguments.entity_id, " ", arguments.action, " result:\n", Json(result)>>

\* Variant: the chain has no branch for control_climate.
call_tool_try_nobranch(name, arguments) ==
  CASE name = "get_all_devices" -> get_all_devices(arguments)
    [] name = "get_devices_by_type" -> devices_by_type(arguments)
    [] name = "get_device_state" -> get_device_state(arguments)
    [] name = "control_light" -> control_light(arguments)
    [] name = "control_switch" -> control_switch(arguments)
    [] OTHER -> Return(ErrorText(<<"Unknown tool '", name, "'">>))

\* lines 256-413, the if/elif chain up to the first await: either the text
\* of an early return or the backend request the branch issues.
call_tool_try(name, arguments) ==
  CASE name = "get_all_devices" -> get_all_devices(arguments)
    [] name = "get_devices_by_type" -> devices_by_type(arguments)
    [] name = "get_device_state" -> get_device_state(arguments)
    [] name = "control_light" -> control_light(arguments)
    [] name = "control_switch" -> control_switch(arguments)
    [] name = "control_climate" -> control_climate(arguments)
    [] OTHER -> Return(ErrorText(<<"Unknown tool '", name, "'">>))

\* The rest of the branch once the backend call has returned `result`,
\* including the `except Exception` of lines 415-417.
call_tool_done(name, arguments, result) ==
  CASE name = "get_all_devices" -> get_all_devices_done(arguments, result)
    [] name = "get_devices_by_type" -> devices_by_type_done(arguments, result)
    [] name = "get_device_state" -> get_device_state_done(arguments, result)
    [] name = "control_light" -> control_light_done(arguments, result)
    [] name = "control_switch" -> control_switch_done(arguments, result)
    [] OTHER -> control_climate_done(arguments, result)

\* ---------------------------------------------------------------- state
Calls == {1, 2}         \* coroutines the transport may run call_tool in

VARIABLES
  pc,          \* per call: idle, aenter, try, await, aexit, returned, raised
  name,        \* per call: the tool name
  arguments,   \* per call: the argument map
  session,     \* ha_client.session: 0 is None, else the id of a ClientSession
  open,        \* ids of the ClientSessions that are not closed
  opened,      \* number of ClientSessions created so far
  own,         \* per call: the session its __aenter__ created (history)
  reqs,        \* per call: the backend requests it issued (history)
  reply,       \* per call: how its HTTP exchange ended (history)
  resp         \* per call: the text of the returned TextContent

vars == <<pc, name, arguments, session, open, opened, own, reqs, reply, resp>>

NoText == <<>>
NoReply == [kind |-> "none"]

Init ==
  /\ pc = [p \in Calls |-> "idle"]
  /\ name = [p \in Calls |-> ""]
  /\ arguments = [p \in Calls |-> Empty]
  /\ session = 0
  /\ open = {}
  /\ opened = 0
  /\ own = [p \in Calls |-> 0]
  /\ reqs = [p \in Calls |-> <<>>]
  /\ reply = [p \in Calls |-> NoReply]
  /\ resp = [p \in Calls |-> NoText]

\* The transport hands (name, arguments) to call_tool, line 251.  Calls do not
\* overlap: the next one is accepted when the previous one has been answered.
Begin(p) ==
  /\ \A q \in Calls : pc[q] = "idle"
  /\ opened < MaxDispatches
  /\ pc' = [pc EXCEPT ![p] = "aenter"]
  /\ \E n \in ToolNames : name' = [name EXCEPT ![p] = n]
  /\ \E a \in ArgMaps : arguments' = [arguments EXCEPT ![p] = a]
  /\ UNCHANGED <<session, open, opened, own, reqs, reply, resp>>

\* __aenter__, lines 50-53
AEnter(p) ==
  /\ pc[p] = "aenter"
  /\ session' = opened + 1
  /\ open' = open \cup {opened + 1}
  /\ opened' = opened + 1
  /\ own' = [own EXCEPT ![p] = opened + 1]
  /\ pc' = [pc EXCEPT ![p] = "try"]
  /\ UNCHANGED <<name, arguments, reqs, reply, resp>>

\* lines 256-413 up to the first await: an early return leaves the with
\* block, a backend call sends its request on ha_client.session.
Try(p) ==
  /\ pc[p] = "try"
  /\ LET step == call_tool_try(name[p], arguments[p]) IN
       IF step.k = "return"
       THEN /\ resp' = [resp EXCEPT ![p] = step.text]
            /\ pc' = [pc EXCEPT ![p] = "aexit"]
            /\ reqs' = reqs
       ELSE /\ reqs' = [reqs EXCEPT ![p] =
                          Append(@, [method |-> step.method, endpoint |-> step.endpoint,
                                     data |-> step.data, session |-> session])]
            /\ pc' = [pc EXCEPT ![p] = "await"]
            /\ resp' = resp
  /\ UNCHANGED <<name, arguments, session, open, opened, own, reply>>

\* The HTTP exchange ends; call_ha_api returns and the branch renders its text.
Respond(p) ==
  /\ pc[p] = "await"
  /\ \E outcome \in Outcomes :
       /\ reply' = [reply EXCEPT ![p] = outcome]
       /\ resp' = [resp EXCEPT ![p] =
                     call_tool_done(name[p], arguments[p], call_ha_api(outcome))]
  /\ pc' = [pc EXCEPT ![p] = "aexit"]
  /\ UNCHANGED <<name, arguments, session, open, opened, own, reqs>>

\* Variant: the session is closed only after a backend call was made.
AExit_leak(p) ==
  /\ pc[p] = "aexit"
  /\ open' = IF session # 0 /\ reqs[p] # <<>> THEN open \ {session} ELSE open
  /\ pc' = [pc EXCEPT ![p] = "returned"]
  /\ UNCHANGED <<name, arguments, session, opened, own, reqs, reply, resp>>

\* __aexit__, lines 55-58, then call_tool returns its text
AExit(p) ==
  /\ pc[p] = "aexit"
  /\ open' = IF session # 0 THEN open \ {session} ELSE open
  /\ pc' = [pc EXCEPT ![p] = "returned"]
  /\ UNCHANGED <<name, arguments, session, opened, own, reqs, reply, resp>>

\* The transport takes the outcome of the call; the coroutine is gone.
Deliver(p) ==
  /\ pc[p] \in {"returned", "raised"}
  /\ pc' = [pc EXCEPT ![p] = "idle"]
  /\ name' = [name EXCEPT ![p] = ""]
  /\ arguments' = [arguments EXCEPT ![p] = Empty]
  /\ own' = [own EXCEPT ![p] = 0]
  /\ reqs' = [reqs EXCEPT ![p] = <<>>]
  /\ reply' = [reply EXCEPT ![p] = NoReply]
  /\ resp' = [resp EXCEPT ![p] = NoText]
  /\ UNCHANGED <<session, open, opened>>

\* aiohttp.ClientSession(...) raises in __aenter__, line 52: the `async with`
\* of line 255 is outside the try of line 256, __aexit__ does not run.
AEnterFail(p) ==
  /\ pc[p] = "aenter"
  /\ pc' = [pc EXCEPT ![p] = "raised"]
  /\ UNCHANGED <<name, arguments, session, open, opened, own, reqs, reply, resp>>

\* session.close() raises in __aexit__, line 58: the exception replaces the
\* return value; whether the session got closed is not determined.
AExitFail(p) ==
  /\ pc[p] = "aexit"
  /\ session # 0
  /\ open' \in {open, open \ {session}}
  /\ resp' = [resp EXCEPT ![p] = NoText]
  /\ pc' = [pc EXCEPT ![p] = "raised"]
  /\ UNCHANGED <<name, arguments, session, opened, own, reqs, reply>>

Next ==
  \E p \in Calls :
    \/ Begin(p)
    \/ AEnter(p)
    \/ Try(p)
    \/ Respond(p)
    \/ AExit(p)
    \/ Deliver(p)

Spec == Init /\ [][Next]_vars

\* The same program when creating or closing the session may fail.
NextFault ==
  \/ Next
  \/ \E p \in Calls : AEnterFail(p) \/ AExitFail(p)

SpecFault == Init /\ [][NextFault]_vars

\* ---------------------------------------------------------------- properties
Active(p) == pc[p] # "idle"
Answered(p) == pc[p] \in {"aexit", "returned"}
Called(p) == pc[p] \in {"await", "aexit", "returned"}

IsErrorText(text) == Len(text) >= 1 /\ text[1] = "Error: "

ControlTools == {"control_light", "control_switch", "control_climate"}

\* The call lacks a parameter its tool requires for the selected action.
LacksRequired(n, a) ==
  \/ n = "get_devices_by_type" /\ NotSeq(a, "device_type")
  \/ n = "get_device_state" /\ NotSeq(a, "entity_id")
  \/ n \in ControlTools /\ (NotSeq(a, "entity_id") \/ NotStr(a, "action"))
  \/ n = "control_climate" /\ Has(a, "action") /\ a.action = "set_temperature"
       /\ ~Has(a, "temperature")
  \/ n = "control_climate" /\ Has(a, "action") /\ a.action = "set_mode"
       /\ ~Has(a, "mode")

RequiredMessages ==
  { "device_type is required", "entity_id is required",
    "entity_id and action are required",
    "temperature is required for set_temperature",
    "mode is required for set_mode" }

IsValidationText(text) ==
  Len(text) = 2 /\ text[1] = "Error: " /\ text[2] \in RequiredMessages

\* C1: a call that lacks a required parameter for the selected action never
\* issues a backend request, and the text it returns is an "Error: ..." text
\* naming the required parameter.
C1_MissingParameterRejected ==
  \A p \in Calls :
    (Active(p) /\ LacksRequired(name[p], arguments[p])) =>
      /\ reqs[p] = <<>>
      /\ pc[p] # "await"
      /\ Answered(p) => IsValidationText(resp[p])

C1_Witness ==
  \E p \in Calls :
    /\ pc[p] = "returned"
    /\ name[p] = "control_climate"
    /\ arguments[p] = [entity_id |-> LightA, action |-> "set_temperature", mode |-> "heat"]
    /\ resp[p] = <<"Error: ", "temperature is required for set_temperature">>
    /\ reqs[p] = <<>>

IsUnknownToolText(text, n) ==
  /\ Len(text) = 4
  /\ text[1] = "Error: "
  /\ text[2] = "Unknown tool '"
  /\ text[3] = n
  /\ text[4] = "'"

\* C2: a name outside the catalogue is answered with exactly
\* "Error: Unknown tool '<name>'" (a function of the name alone) and without a
\* backend request; a name of the catalogue is never answered with that text.
C2_UnknownTool ==
  \A p \in Calls :
    /\ (Active(p) /\ name[p] \notin Catalogue) =>
         /\ reqs[p] = <<>>
         /\ pc[p] # "await"
         /\ Answered(p) => IsUnknownToolText(resp[p], name[p])
    /\ (Answered(p) /\ name[p] \in Catalogue) =>
         \A n \in ToolNames : ~IsUnknownToolText(resp[p], n)

C2_Witness ==
  \E p \in Calls :
    /\ pc[p] = "returned"
    /\ name[p] = "delete_device"
    /\ IsUnknownToolText(resp[p], "delete_device")
    /\ Has(arguments[p], "entity_id")

\* C3: every call_tool invocation ends by returning one text, whatever the
\* backend and the session do; no exception leaves call_tool.
C3_NoExceptionEscapes ==
  \A p \in Calls :
    /\ pc[p] # "raised"
    /\ pc[p] = "returned" => resp[p] # NoText

TransportFailed(p) == reply[p].kind \in {"client_error", "exception"}

\* C4: a get_all_devices call whose backend connection failed is answered
\* with a text that carries an error indicator, not with a device listing.
C4_ConnectionFailureShown ==
  \A p \in Calls :
    (Answered(p) /\ name[p] = "get_all_devices" /\ TransportFailed(p)) =>
      /\ IsErrorText(resp[p])
      /\ ~(Len(resp[p]) = 4 /\ resp[p][1] = "Found ")

\* C5: when the backend call of get_device_state or of a control tool failed
\* at transport level with message m, the returned text is "Error: m".
C5_TransportFailureIsErrorText ==
  \A p \in Calls :
    (Answered(p) /\ TransportFailed(p)
       /\ name[p] \in {"get_device_state"} \cup ControlTools) =>
      /\ Len(resp[p]) = 2
      /\ resp[p][1] = "Error: "
      /\ resp[p][2] = call_ha_api(reply[p]).v.error

Domain(tool) ==
  CASE tool = "control_light" -> "light"
    [] tool = "control_switch" -> "switch"
    [] OTHER -> "climate"

OptionalFields(a, keys) == [ k \in (DOMAIN a) \cap keys |-> a[k] ]

\* exactly one request, a POST to services/<domain>/<service> carrying data
OneServiceCall(p, domain, service, data) ==
  /\ Len(reqs[p]) = 1
  /\ reqs[p][1].method = "POST"
  /\ reqs[p][1].endpoint = <<"services", domain, service>>
  /\ reqs[p][1].data = data

SwitchingCall(p) ==
  /\ Called(p)
  /\ name[p] \in {"control_light", "control_switch"}
  /\ ~NotSeq(arguments[p], "entity_id")
  /\ Has(arguments[p], "action")
  /\ arguments[p].action \in {"turn_on", "turn_off", "toggle"}

\* C6 as stated: control_light and control_switch send, for every action,
\* entity_id plus every optional field (brightness, color_temp) present.
C6_OptionalFieldsAlwaysForwarded ==
  \A p \in Calls :
    SwitchingCall(p) =>
      OneServiceCall(p, Domain(name[p]), arguments[p].action,
                     [entity_id |-> arguments[p].entity_id]
                     @@ OptionalFields(arguments[p], {"brightness", "color_temp"}))

\* C6 amended: exactly one call to <domain>.<action>; control_light turn_on
\* sends entity_id plus the brightness and color_temp present in the arguments,
\* unchanged; every other action, and control_switch, sends entity_id alone.
C6_ServicePayload ==
  \A p \in Calls :
    SwitchingCall(p) =>
      OneServiceCall(p, Domain(name[p]), arguments[p].action,
                     [entity_id |-> arguments[p].entity_id]
                     @@ (IF name[p] = "control_light" /\ arguments[p].action = "turn_on"
                         THEN OptionalFields(arguments[p], {"brightness", "color_temp"})
                         ELSE Empty))

C6_Witness ==
  \E p \in Calls :
    /\ pc[p] = "await"
    /\ name[p] = "control_light"
    /\ arguments[p] = [entity_id |-> LightA, action |-> "turn_on", brightness |-> 120]
    /\ OneServiceCall(p, "light", "turn_on", [entity_id |-> LightA, brightness |-> 120])

\* C7: control_climate set_temperature sends exactly {entity_id, temperature}
\* to climate.set_temperature; set_mode sends exactly {entity_id, hvac_mode}
\* to climate.set_hvac_mode, hvac_mode being the mode argument.
C7_ClimatePayload ==
  \A p \in Calls :
    (Called(p) /\ name[p] = "control_climate" /\ ~NotSeq(arguments[p], "entity_id")
       /\ Has(arguments[p], "action")) =>
      /\ (arguments[p].action = "set_temperature" /\ Has(arguments[p], "temperature")) =>
           OneServiceCall(p, "climate", "set_temperature",
                          [entity_id |-> arguments[p].entity_id,
                           temperature |-> arguments[p].temperature])
      /\ (arguments[p].action = "set_mode" /\ Has(arguments[p], "mode")) =>
           OneServiceCall(p, "climate", "set_hvac_mode",
                          [entity_id |-> arguments[p].entity_id,
                           hvac_mode |-> arguments[p].mode])

C7_Witness ==
  \E p \in Calls :
    /\ pc[p] = "await"
    /\ name[p] = "control_climate"
    /\ arguments[p] = [entity_id |-> LightA, action |-> "set_mode", brightness |-> 120,
                       temperature |-> 21, mode |-> "heat"]
    /\ OneServiceCall(p, "climate", "set_hvac_mode", [entity_id |-> LightA, hvac_mode |-> "heat"])

\* what get_all_devices renders when its backend call ends as the call of p did
AllDevicesText(p) == get_all_devices_done(Empty, call_ha_api(reply[p]))

IsStateList(body) == body.t = "list" /\ ~RaisesOnGet(body.items)

C10_SessionPerDispatch ==
  /\ \A p \in Calls :
       /\ pc[p] \in {"try", "await", "aexit"} => (own[p] # 0 /\ session = own[p] /\ own[p] \in open)
       /\ \A i \in 1..Len(reqs[p]) : reqs[p][i].session = own[p] /\ own[p] # 0
       /\ pc[p] = "returned" => own[p] \notin open
  /\ (\A p \in Calls : pc[p] \in {"idle", "returned"}) => open = {}

C10_Witness ==
  \E p \in Calls :
    /\ pc[p] = "returned"
    /\ opened = 2
    /\ own[p] = 2
    /\ open = {}
    /\ resp[p] = ErrorText(<<AttributeError>>)
    /\ Len(reqs[p]) = 1

\* ---------------------------------------------------------------- overlapping calls
\* The transport runs call_tool as coroutines of one event loop: a coroutine
\* runs from one await to the next without interruption.  __aenter__ has no
\* await of its own, so a call runs from its start to the await of its backend
\* request in one piece, and from the end of that request to its return.
Running(q) == pc[q] \in {"aenter", "try", "aexit"}

\* Arguments of the overlapping calls: with and without the entity_id that
\* get_device_state needs; get_all_devices takes either.
ConcArgs == {Empty, [entity_id |-> LightA]}

\* call_tool is entered, line 251, while another call may be suspended.
BeginConc(p) ==
  /\ pc[p] = "idle"
  /\ \A q \in Calls : ~Running(q)
  /\ opened < MaxDispatches
  /\ pc' = [pc EXCEPT ![p] = "aenter"]
  /\ \E n \in ToolNames : name' = [name EXCEPT ![p] = n]
  /\ \E a \in ConcArgs : arguments' = [arguments EXCEPT ![p] = a]
  /\ UNCHANGED <<session, open, opened, own, reqs, reply, resp>>

\* The event loop resumes a suspended call, or hands over a finished one,
\* only when no coroutine is running.
RespondConc(p) ==
  /\ \A q \in Calls : ~Running(q)
  /\ Respond(p)

DeliverConc(p) ==
  /\ \A q \in Calls : ~Running(q)
  /\ Deliver(p)

NextConc ==
  \E p \in Calls :
    \/ BeginConc(p)
    \/ AEnter(p)
    \/ Try(p)
    \/ RespondConc(p)
    \/ AExit(p)
    \/ DeliverConc(p)

SpecConc == Init /\ [][NextConc]_vars

InDispatch(p) == pc[p] \in {"try", "await", "aexit"}

\* C11: when two call_tool invocations interleave at their await points, the
\* session handle of a running invocation is the session it opened and that
\* session is open (the other invocation neither overwrote nor closed it),
\* every request in flight is on an open session, and no session is left
\* open once both invocations have returned.
C11_NoSharedMutableState ==
  /\ \A p \in Calls :
       /\ InDispatch(p) => (session = own[p] /\ own[p] \in open)
       /\ pc[p] = "await" => reqs[p][Len(reqs[p])].session \in open
  /\ (\A p \in Calls : pc[p] \in {"idle", "returned"}) => open = {}

====
